---- MODULE Spec2Model ----
(***************************************************************************)
(* kivi: the Invalidator / InvalidatorSubscription dependency graph and    *)
(* the Component lifecycle (src/src/invalidator.js, debug build:           *)
(* kivi.DEBUG is true, so the guards under `if (kivi.DEBUG)` are active).  *)
(*                                                                         *)
(* Every JavaScript function is an operator from a heap S to the heap      *)
(* after the call.  A thrown exception is recorded in S.err; the callers   *)
(* stop at the first exception and keep the writes made before it, as the  *)
(* unwinding JavaScript stack does.  S.trace lists what the call did to    *)
(* its collaborators (subscriber calls, descriptor hooks, renderer and     *)
(* scheduler entry points), in order.                                      *)
(***************************************************************************)
EXTENDS Integers, Sequences, FiniteSets, TLC

\* ------------------------------------------------------------------ bounds
MaxClock == 2     \* the scheduler clock runs 0..MaxClock
MaxSubs  == 2     \* InvalidatorSubscription objects ever constructed
MaxQueue == 2     \* registrations held by the next-frame queue
MaxEachFrame == 3 \* registrations held by the per-frame recurring set
MaxWaveSubs == 3  \* subscriptions of the invalidator whose handlers re-enter
MaxActors == 2    \* Actor objects ever constructed
MaxGrowSubs == 4  \* subscriptions when handlers subscribe during a wave

Comps  == {"c1", "c2"}
Invs   == {"i1", "i2"}
VNodes == {"v1", "v2"}
MaxSubIds ==
  LET m == IF MaxSubs > MaxWaveSubs THEN MaxSubs ELSE MaxWaveSubs
  IN IF m > MaxGrowSubs THEN m ELSE MaxGrowSubs
SubIds == 1..MaxSubIds

\* ------------------------------------------------------- flags (as bit sets)
\* kivi.InvalidatorSubscriptionFlags: a flags word is the set of its bits.
COMPONENT == "COMPONENT"
TRANSIENT == "TRANSIENT"

\* kivi.ComponentFlags lives in a sibling file; its bits are taken from the
\* flag table of the specification.
DISPOSED          == "DISPOSED"
ATTACHED          == "ATTACHED"
MOUNTING          == "MOUNTING"
DIRTY             == "DIRTY"
UPDATE_EACH_FRAME == "UPDATE_EACH_FRAME"
IN_UPDATE_QUEUE   == "IN_UPDATE_QUEUE"
SHOULD_UPDATE_FLAGS == {ATTACHED, DIRTY}

\* ------------------------------------------------------------------ errors
NoError              == "none"
\* property access on null (subscriptions.constructor with subscriptions null)
TypeError            == "TypeError"
ErrCancelTwice       == "Failed to cancel InvalidatorSubscription: subscription cannot be canceled twice"
ErrInvalidatorRemove == "Failed to remove subscription from Invalidator: cannot find appropriate subscription"
ErrComponentRemove   == "Failed to remove subscription from Component: cannot find appropriate subscription"
ErrDisposeTwice      == "Failed to dispose Component: component is already disposed"

\* --------------------------------------------------- dual-shape collections
\* ?Array<InvalidatorSubscription> | ?InvalidatorSubscription: null, one
\* subscription object, or an array.
Null      == [shape |-> "null",   items |-> <<>>]
Single(s) == [shape |-> "single", items |-> <<s>>]
Array(q)  == [shape |-> "array",  items |-> q]

Members(set) == {set.items[k] : k \in 1..Len(set.items)}

\* Array.prototype.indexOf, 1-based; 0 stands for JavaScript's -1.
IndexOf(q, x) ==
  IF \E k \in 1..Len(q) : q[k] = x
  THEN CHOOSE k \in 1..Len(q) : q[k] = x /\ \A j \in 1..(k - 1) : q[j] # x
  ELSE 0

\* a[i] = v on an array of length Len(a): overwrite, or extend by one when i
\* is the first index past the end.
AssignAt(a, i, v) ==
  IF i <= Len(a) THEN [a EXCEPT ![i] = v] ELSE Append(a, v)

Count(q, x) == Cardinality({k \in 1..Len(q) : q[k] = x})

VARIABLES clock, queue, eachFrame, inv, comp, subs, nsubs, op, trace, err
\* the actors module (src/unnamed/part_000): the ActorDescriptor objects and
\* the Actor objects in order of construction (an actor's id is its index - 1)
VARIABLES actorDescriptors, actors
vars == <<clock, queue, eachFrame, inv, comp, subs, nsubs, op, trace, err,
          actorDescriptors, actors>>

\* The heap an operation works on.
Heap == [queue |-> queue, eachFrame |-> eachFrame, inv |-> inv, comp |-> comp,
         subs |-> subs, trace |-> <<>>, err |-> NoError]

Throw(S, e) == [S EXCEPT !.err = e]
Log(S, ev)  == [S EXCEPT !.trace = Append(@, ev)]

\* ------------------------------------------------- kivi.Invalidator (sets)
\* The three-way insert that addSubscription, Component.subscribe and
\* Component.transientSubscribe all perform on their collection.
PushSubscription(set, s) ==
  IF set.shape = "null" THEN Single(s)
  ELSE IF set.shape = "single" THEN Array(<<set.items[1], s>>)
  ELSE Array(Append(set.items, s))

\* subscriptions[i] = subscriptions.pop(): the target index i is fixed before
\* pop() runs, then the popped element is stored at i.
SwapPop(a, i) ==
  LET last == a[Len(a)]
      rest == SubSeq(a, 1, Len(a) - 1)
  IN AssignAt(rest, i, last)

\* The removal that Invalidator.removeSubscription and
\* Component.removeSubscription perform on one collection; msg is the
\* message of the debug guard.  Returns the collection and the exception.
RemoveFrom(set, s, msg) ==
  IF set.shape = "null" THEN [set |-> set, err |-> TypeError]
  ELSE IF set.shape = "single" \/ Len(set.items) = 1 THEN
    IF set.items[1] # s THEN [set |-> set, err |-> msg]
    ELSE [set |-> Null, err |-> NoError]
  ELSE LET i == IndexOf(set.items, s) IN
    IF i = 0 THEN [set |-> set, err |-> msg]
    ELSE [set |-> Array(SwapPop(set.items, i)), err |-> NoError]

SetField(sub) ==
  IF TRANSIENT \in sub.flags THEN "transientSubscriptions" ELSE "subscriptions"

Invalidator_hasSubscriptions(S, i) ==
  \/ /\ S.inv[i].subscriptions.shape # "null"
     /\ \/ S.inv[i].subscriptions.shape = "single"
        \/ Len(S.inv[i].subscriptions.items) > 0
  \/ /\ S.inv[i].transientSubscriptions.shape # "null"
     /\ \/ S.inv[i].transientSubscriptions.shape = "single"
        \/ Len(S.inv[i].transientSubscriptions.items) > 0

Invalidator_addSubscription(S, i, s) ==
  LET f == SetField(S.subs[s])
  IN [S EXCEPT !.inv[i][f] = PushSubscription(@, s)]

Invalidator_removeSubscription(S, i, s) ==
  LET f == SetField(S.subs[s])
      r == RemoveFrom(S.inv[i][f], s, ErrInvalidatorRemove)
  IN IF r.err # NoError THEN Throw(S, r.err)
     ELSE [S EXCEPT !.inv[i][f] = r.set]

\* ------------------------------------------------ scheduler (collaborator)
\* kivi.scheduler.instance.nextFrame().updateComponent(c)
Scheduler_updateComponent(S, c) ==
  Log([S EXCEPT !.queue = Append(@, c)], <<"nextFrame", c>>)

\* kivi.scheduler.instance.startUpdateComponentEachFrame(c)
Scheduler_startUpdateComponentEachFrame(S, c) ==
  Log([S EXCEPT !.eachFrame = Append(@, c)], <<"eachFrame", c>>)

\* ------------------------------------------- kivi.Component (subscriptions)
Component_removeSubscription(S, c, s) ==
  LET f == SetField(S.subs[s])
      r == RemoveFrom(S.comp[c][f], s, ErrComponentRemove)
  IN IF r.err # NoError THEN Throw(S, r.err)
     ELSE [S EXCEPT !.comp[c][f] = r.set]

\* for (i = 0; i < subscriptions.length; i++) {
\*   s = subscriptions[i]; s.invalidator.removeSubscription(s); }
RECURSIVE CancelLoop(_, _, _)
CancelLoop(S, a, k) ==
  IF S.err # NoError \/ k > Len(a) THEN S
  ELSE CancelLoop(Invalidator_removeSubscription(S, S.subs[a[k]].invalidator, a[k]),
                  a, k + 1)

Component_cancelSubscriptions(S, c) ==
  LET set == S.comp[c].subscriptions
      S1  == IF set.shape = "null" THEN S
             ELSE IF set.shape = "single"
               THEN Invalidator_removeSubscription(
                      S, S.subs[set.items[1]].invalidator, set.items[1])
               ELSE CancelLoop(S, set.items, 1)
  IN IF S1.err # NoError THEN S1
     ELSE [S1 EXCEPT !.comp[c].subscriptions = Null]

Component_cancelTransientSubscriptions(S, c) ==
  LET set == S.comp[c].transientSubscriptions
      S1  == IF set.shape = "null" THEN S
             ELSE IF set.shape = "single"
               THEN Invalidator_removeSubscription(
                      S, S.subs[set.items[1]].invalidator, set.items[1])
               ELSE CancelLoop(S, set.items, 1)
  IN IF S1.err # NoError THEN S1
     ELSE [S1 EXCEPT !.comp[c].transientSubscriptions = Null]

\* new kivi.InvalidatorSubscription(flags, invalidator, subscriber): the
\* object gets the next free identity.
NewSubscription(flags, i, who) ==
  [flags |-> flags, invalidator |-> i, subscriber |-> who, isCanceled |-> FALSE]

Component_subscribe(S, c, i, s) ==
  LET S1 == [S EXCEPT !.subs[s] = NewSubscription({COMPONENT}, i, c)]
      S2 == Invalidator_addSubscription(S1, i, s)
  IN [S2 EXCEPT !.comp[c].subscriptions = PushSubscription(@, s)]

Component_transientSubscribe(S, c, i, s) ==
  LET S1 == [S EXCEPT !.subs[s] = NewSubscription({COMPONENT, TRANSIENT}, i, c)]
      S2 == Invalidator_addSubscription(S1, i, s)
  IN [S2 EXCEPT !.comp[c].transientSubscriptions = PushSubscription(@, s)]

\* ------------------------------------------ faulty variants
\* Variants of the lifecycle methods with one condition or call left out;
\* the properties of C6, C7, C8 and C10 are violated when a method is
\* replaced by its variant.
Component_update_DirtyOnly(S, c) ==
  IF DIRTY \in S.comp[c].flags
  THEN LET S1 == Log(S, <<"update", c>>)
       IN [S1 EXCEPT !.comp[c].mtime = clock,
                     !.comp[c].flags = @ \ {DIRTY}]
  ELSE S

Component_invalidate_NoRegistration(S, c) ==
  IF S.comp[c].flags \cap {DIRTY, DISPOSED} = {}
  THEN LET S1 == [S EXCEPT !.comp[c].flags = @ \cup {DIRTY}]
       IN Component_cancelTransientSubscriptions(S1, c)
  ELSE S

Component_invalidate_IgnoreDisposed(S, c) ==
  IF DIRTY \notin S.comp[c].flags
  THEN LET S1 == [S EXCEPT !.comp[c].flags = @ \cup {DIRTY}]
           S2 == Component_cancelTransientSubscriptions(S1, c)
       IN IF S2.err # NoError THEN S2
          ELSE Scheduler_updateComponent(S2, c)
  ELSE S

\* ------------------------------------------ kivi.Component (lifecycle)
Component_update(S, c) ==
  IF SHOULD_UPDATE_FLAGS \subseteq S.comp[c].flags
  THEN LET S1 == Log(S, <<"update", c>>)      \* this.descriptor.update(this)
       IN [S1 EXCEPT !.comp[c].mtime = clock,
                     !.comp[c].flags = @ \ {DIRTY}]
  ELSE S

Component_invalidate(S, c) ==
  IF S.comp[c].flags \cap {DIRTY, DISPOSED} = {}
  THEN LET S1 == [S EXCEPT !.comp[c].flags = @ \cup {DIRTY}]
           S2 == Component_cancelTransientSubscriptions(S1, c)
       IN IF S2.err # NoError THEN S2
          ELSE Scheduler_updateComponent(S2, c)
  ELSE S

\* kivi.CDescriptor objects: the hook fields set on them (null otherwise).
\* Every descriptor used carries an update hook.
Descriptors == [d1 |-> [disposed |-> TRUE], d2 |-> [disposed |-> FALSE]]

\* faulty variant: startUpdateEachFrame() without the IN_UPDATE_QUEUE guard
Component_startUpdateEachFrame_NoGuard(S, c) ==
  Scheduler_startUpdateComponentEachFrame(
    [S EXCEPT !.comp[c].flags = @ \cup {UPDATE_EACH_FRAME, IN_UPDATE_QUEUE}], c)

Component_startUpdateEachFrame(S, c) ==
  LET S1 == [S EXCEPT !.comp[c].flags = @ \cup {UPDATE_EACH_FRAME}]
  IN IF IN_UPDATE_QUEUE \notin S1.comp[c].flags
     THEN Scheduler_startUpdateComponentEachFrame(
            [S1 EXCEPT !.comp[c].flags = @ \cup {IN_UPDATE_QUEUE}], c)
     ELSE S1

Component_stopUpdateEachFrame(S, c) ==
  [S EXCEPT !.comp[c].flags = @ \ {UPDATE_EACH_FRAME}]

\* faulty variant: syncVRoot() that leaves MOUNTING set after mounting
Component_syncVRoot_KeepMounting(S, c, newRoot) ==
  LET root == S.comp[c].root
      S1 == IF root = "null"
            THEN IF MOUNTING \in S.comp[c].flags
                 THEN Log(S, <<"mount", c, newRoot>>)
                 ELSE Log(S, <<"render", c, newRoot>>)
            ELSE Log(S, <<"sync", c, root, newRoot>>)
  IN [S1 EXCEPT !.comp[c].root = newRoot]

Component_syncVRoot(S, c, newRoot) ==
  LET root == S.comp[c].root
      S1 == IF root = "null"
            THEN IF MOUNTING \in S.comp[c].flags
                 THEN [Log(S, <<"mount", c, newRoot>>)
                         EXCEPT !.comp[c].flags = @ \ {MOUNTING}]
                 ELSE Log(S, <<"render", c, newRoot>>)
            ELSE Log(S, <<"sync", c, root, newRoot>>)
  IN [S1 EXCEPT !.comp[c].root = newRoot]

\* faulty variant: dispose() without the already-disposed guard
Component_dispose_NoGuard(S, c) ==
  LET S1 == [S EXCEPT !.comp[c].flags =
               (@ \cup {DISPOSED}) \ {ATTACHED, UPDATE_EACH_FRAME}]
      S2 == Component_cancelSubscriptions(S1, c)
      S3 == Component_cancelTransientSubscriptions(S2, c)
      S4 == IF S3.comp[c].root # "null"
            THEN Log(S3, <<"root.dispose", c, S3.comp[c].root>>) ELSE S3
      S5 == IF Descriptors[S4.comp[c].descriptor].disposed
            THEN Log(S4, <<"disposed", c>>) ELSE S4
  IN IF S2.err # NoError THEN S2
     ELSE IF S3.err # NoError THEN S3
     ELSE S5

Component_dispose(S, c) ==
  IF DISPOSED \in S.comp[c].flags THEN Throw(S, ErrDisposeTwice)
  ELSE
    LET S1 == [S EXCEPT !.comp[c].flags =
                 (@ \cup {DISPOSED}) \ {ATTACHED, UPDATE_EACH_FRAME}]
        S2 == Component_cancelSubscriptions(S1, c)
        S3 == Component_cancelTransientSubscriptions(S2, c)
        S4 == IF S3.comp[c].root # "null"
              THEN Log(S3, <<"root.dispose", c, S3.comp[c].root>>) ELSE S3
        S5 == IF Descriptors[S4.comp[c].descriptor].disposed
              THEN Log(S4, <<"disposed", c>>) ELSE S4
    IN IF S2.err # NoError THEN S2
       ELSE IF S3.err # NoError THEN S3
       ELSE S5

\* ------------------------------------------ kivi.InvalidatorSubscription
Subscription_cancel(S, s) ==
  IF S.subs[s].isCanceled THEN Throw(S, ErrCancelTwice)
  ELSE
    LET S1 == [S EXCEPT !.subs[s].isCanceled = TRUE]
        S2 == Invalidator_removeSubscription(S1, S1.subs[s].invalidator, s)
    IN IF S2.err # NoError THEN S2
       ELSE IF COMPONENT \in S2.subs[s].flags
         THEN Component_removeSubscription(S2, S2.subs[s].subscriber, s)
         ELSE S2

\* Subscriber functions (function() values handed to a subscription): "fn"
\* touches nothing of the module; "fnInvalidate" calls invalidate() on the
\* invalidator of its subscription; "fnCancel<k>" calls cancel() on the
\* subscription with identity k.
CancelHandler == [fnCancel1 |-> 1, fnCancel2 |-> 2, fnCancel3 |-> 3]
Handlers == {"fn", "fnInvalidate"} \cup DOMAIN CancelHandler

\* Subscriber functions that subscribe: "fnAddTransient" constructs a
\* transient subscription to the invalidator of its own subscription, with
\* subscriber "fn", and adds it; "fnAddChain" does the same with subscriber
\* "fnAddTransient".
AddedSubscriber == [fnAddTransient |-> "fn", fnAddChain |-> "fnAddTransient"]

\* the identity of the next InvalidatorSubscription object constructed
NextFree(S) ==
  CHOOSE s \in SubIds :
    /\ S.subs[s].invalidator = "none"
    /\ \A r \in 1..(s - 1) : S.subs[r].invalidator # "none"

\* handler code: s = new kivi.InvalidatorSubscription(TRANSIENT, i, who);
\* i.addSubscription(s)
Handler_addSubscription(S, i, who) ==
  LET s  == NextFree(S)
      S1 == [S EXCEPT !.subs[s] = NewSubscription({TRANSIENT}, i, who)]
  IN Log(Invalidator_addSubscription(S1, i, s), <<"add", s>>)

RECURSIVE Invalidator_invalidate(_, _)

\* this.subscriber.call()
Subscriber_call(S, s) ==
  LET who == S.subs[s].subscriber
      S1  == Log(S, <<"call", s>>)
  IN IF who = "fnInvalidate"
     THEN Invalidator_invalidate(Log(S1, <<"reenter", s>>), S1.subs[s].invalidator)
     ELSE IF who \in DOMAIN CancelHandler
       THEN Subscription_cancel(S1, CancelHandler[who])
       ELSE IF who \in DOMAIN AddedSubscriber
         THEN Handler_addSubscription(S1, S1.subs[s].invalidator, AddedSubscriber[who])
         ELSE S1

\* The trace records the notification itself, then what the subscriber does:
\* a component is invalidated, a callback is called.
Subscription_invalidate(S, s) ==
  LET S1 == Log(S, <<"notify", s>>)
  IN IF COMPONENT \in S1.subs[s].flags
     THEN Component_invalidate(S1, S1.subs[s].subscriber)
     ELSE Subscriber_call(S1, s)

\* ------------------------------------------ kivi.Invalidator.invalidate
\* for (i = 0; i < subscriptions.length; i++) subscriptions[i].invalidate();
\* over the array the durable field points to, read again on every round.
RECURSIVE DurableLoop(_, _, _)
DurableLoop(S, i, k) ==
  IF S.err # NoError \/ k > Len(S.inv[i].subscriptions.items) THEN S
  ELSE DurableLoop(Subscription_invalidate(S, S.inv[i].subscriptions.items[k]),
                   i, k + 1)

\* the same loop over the array taken out of the transient field
RECURSIVE TransientLoop(_, _, _)
TransientLoop(S, a, k) ==
  IF S.err # NoError \/ k > Len(a) THEN S
  ELSE TransientLoop(Subscription_invalidate(S, a[k]), a, k + 1)

\* The durable phase of a wave: this._subscriptions is null, one subscription
\* or an array that is walked.
DurablePhase(S1, i) ==
  IF S1.inv[i].subscriptions.shape = "null" THEN S1
  ELSE IF S1.inv[i].subscriptions.shape = "single"
    THEN Subscription_invalidate(S1, S1.inv[i].subscriptions.items[1])
    ELSE DurableLoop(S1, i, 1)

\* the value t taken out of the transient field is served on the heap S2c, in
\* which the field is null
ServeTransient(S2c, t) ==
  IF t.shape = "single" THEN Subscription_invalidate(S2c, t.items[1])
  ELSE TransientLoop(S2c, t.items, 1)

\* The transient phase of a wave, on the heap S2 that the durable phase left
\* (an exception of the durable phase ends the wave).  The trace also records
\* the moment the transient field is set to null.
TransientPhase(S2, i) ==
  IF S2.err # NoError \/ S2.inv[i].transientSubscriptions.shape = "null" THEN S2
  ELSE ServeTransient(Log([S2 EXCEPT !.inv[i].transientSubscriptions = Null],
                          <<"clear", i>>),
                      S2.inv[i].transientSubscriptions)

\* faulty variant: an invalidate() call that finds mtime = clock is not a
\* no-op but drops the durable set
Invalidator_invalidate_NotAbsorbed(S, i) ==
  IF S.inv[i].mtime < clock
  THEN TransientPhase(DurablePhase([S EXCEPT !.inv[i].mtime = clock], i), i)
  ELSE [S EXCEPT !.inv[i].subscriptions = Null]

\* faulty variant: invalidate() that serves the transient set first
Invalidator_invalidate_TransientFirst(S, i) ==
  IF S.inv[i].mtime < clock
  THEN LET S2 == TransientPhase([S EXCEPT !.inv[i].mtime = clock], i)
       IN IF S2.err # NoError THEN S2 ELSE DurablePhase(S2, i)
  ELSE S

\* faulty variant: invalidate() that does not stamp mtime with the clock
Invalidator_invalidate_NoStamp(S, i) ==
  IF S.inv[i].mtime < clock
  THEN TransientPhase(DurablePhase(S, i), i)
  ELSE S

\* faulty variant: invalidate() that reads the transient field before it
\* serves the durable set
Invalidator_invalidate_EarlySnapshot(S, i) ==
  IF S.inv[i].mtime < clock
  THEN LET S2 == DurablePhase([S EXCEPT !.inv[i].mtime = clock], i)
       IN IF S2.err # NoError \/ S.inv[i].transientSubscriptions.shape = "null"
          THEN S2
          ELSE ServeTransient(Log([S2 EXCEPT !.inv[i].transientSubscriptions = Null],
                                  <<"clear", i>>),
                              S.inv[i].transientSubscriptions)
  ELSE S

\* kivi.Invalidator.prototype.invalidate: the stamp, then the two phases
Invalidator_invalidate(S, i) ==
  IF S.inv[i].mtime < clock
  THEN TransientPhase(DurablePhase([S EXCEPT !.inv[i].mtime = clock], i), i)
  ELSE S

\* Update hooks (descriptor.update, a function of user code): "render" touches
\* nothing of the module; "invalidate" calls invalidate() on the component it
\* is handed; "fire" calls invalidate() on the invalidator HookInvalidator.
UpdateHooks == {"render", "invalidate", "fire"}
HookInvalidator == "i1"

\* this.descriptor.update(this), the hook being h
Descriptor_update(S, c, h) ==
  LET S1 == Log(S, <<"update", c>>)
  IN IF h = "invalidate"
     THEN Component_invalidate(Log(S1, <<"hook.invalidate", c>>), c)
     ELSE IF h = "fire"
       THEN Invalidator_invalidate(Log(S1, <<"hook.fire", c>>), HookInvalidator)
       ELSE S1

\* update() after the hook has returned: this.mtime = clock; the DIRTY bit is
\* cleared.  S1 is the heap the hook left; an exception of the hook leaves
\* update() before these writes.
AfterHook(S1, c) ==
  IF S1.err # NoError THEN S1
  ELSE [S1 EXCEPT !.comp[c].mtime = clock,
                  !.comp[c].flags = @ \ {DIRTY}]

\* faulty variant: update() that clears Dirty before it runs the hook
Component_updateWith_ClearFirst(S, c, h) ==
  IF SHOULD_UPDATE_FLAGS \subseteq S.comp[c].flags
  THEN AfterHook(Descriptor_update([S EXCEPT !.comp[c].flags = @ \ {DIRTY}], c, h), c)
  ELSE S

\* Component.update() with the hook's calls back into the module
Component_updateWith(S, c, h) ==
  IF SHOULD_UPDATE_FLAGS \subseteq S.comp[c].flags
  THEN AfterHook(Descriptor_update(S, c, h), c)
  ELSE S

\* the frame flush when the update hooks are h
RECURSIVE FlushLoopWith(_, _, _, _)
FlushLoopWith(S, q, k, h) ==
  IF S.err # NoError \/ k > Len(q) THEN S
  ELSE FlushLoopWith(Component_updateWith(S, q[k], h), q, k + 1, h)

Scheduler_flushFrameWith(S, h) ==
  FlushLoopWith([S EXCEPT !.queue = <<>>], S.queue, 1, h)

\* scheduler frame flush: update() on every component registered for the frame
RECURSIVE FlushLoop(_, _, _)
FlushLoop(S, q, k) ==
  IF S.err # NoError \/ k > Len(q) THEN S
  ELSE FlushLoop(Component_update(S, q[k]), q, k + 1)

Scheduler_flushFrame(S) ==
  FlushLoop([S EXCEPT !.queue = <<>>], S.queue, 1)

\* scheduler, once per frame, over the recurring set: a component still in
\* continuous mode is updated and kept; one that left it is dropped from the
\* set and its IN_UPDATE_QUEUE bit cleared (the scheduler dequeue).
RECURSIVE EachFrameLoop(_, _, _)
EachFrameLoop(S, q, k) ==
  IF S.err # NoError \/ k > Len(q) THEN S
  ELSE IF UPDATE_EACH_FRAME \in S.comp[q[k]].flags
    THEN EachFrameLoop([Component_update(S, q[k]) EXCEPT !.eachFrame = Append(@, q[k])],
                       q, k + 1)
    ELSE EachFrameLoop([S EXCEPT !.comp[q[k]].flags = @ \ {IN_UPDATE_QUEUE}],
                       q, k + 1)

Scheduler_updateEachFrame(S) ==
  EachFrameLoop([S EXCEPT !.eachFrame = <<>>], S.eachFrame, 1)

\* ------------------------------------------------ actors (part_000)
ActorDescs    == {"ad1", "ad2"}
ActorHandlers == {"h1", "h2"}     \* handler functions of user code
ActorProps    == {"undefined", "p1"}

\* a property that no statement has assigned reads as undefined
Undefined == "undefined"

NoActorDescriptor ==
  [created |-> FALSE, flags |-> 0, markFlags |-> 0, createState |-> "null",
   init |-> "null", handleMessage |-> "null", middleware |-> "null",
   disposed |-> Undefined]

\* new ActorDescriptor(): the constructor assigns _flags, _markFlags,
\* _createState, _init, _handleMessage and _middleware; _disposed is declared
\* and not assigned.
NewActorDescriptor ==
  [created |-> TRUE, flags |-> 0, markFlags |-> 0, createState |-> "null",
   init |-> "null", handleMessage |-> "null", middleware |-> "null",
   disposed |-> Undefined]

\* the heap of the actors module, for one call
ActorHeap == [actorDescriptors |-> actorDescriptors, actors |-> actors,
              trace |-> <<>>, err |-> NoError]

ActorDescriptor_createState(S, d, h) ==
  [S EXCEPT !.actorDescriptors[d].createState = h]

ActorDescriptor_init(S, d, h) ==
  [S EXCEPT !.actorDescriptors[d].init = h]

ActorDescriptor_disposed(S, d, h) ==
  [S EXCEPT !.actorDescriptors[d].disposed = h]

\* new Actor(descriptor, props, flags); the id is _nextActorId++
NewActor(S, d, props, flags) ==
  [id |-> Len(S.actors), flags |-> flags, descriptor |-> d,
   props |-> IF props = Undefined THEN "null" ELSE props,
   state |-> "null", inbox |-> <<>>, middleware |-> "null"]

\* the value a createState handler returns
StateOf(h) == IF h = "h1" THEN "s1" ELSE "s2"

\* ActorDescriptor.create(props): the actor is the last of S.actors
ActorDescriptor_create(S, d, props) ==
  LET D  == S.actorDescriptors[d]
      S1 == [S EXCEPT !.actors = Append(@, NewActor(S, d, props, D.markFlags))]
      a  == Len(S1.actors)
      S2 == IF D.createState # "null"
            THEN [Log(S1, <<"createState", a, D.createState>>)
                    EXCEPT !.actors[a].state = StateOf(D.createState)]
            ELSE S1
  IN IF D.init # "null" THEN Log(S2, <<"init", a, D.init>>) ELSE S2

\* calling a value: a handler function runs, anything else is a TypeError
CallDisposed(S, a, f) ==
  IF f \in ActorHandlers THEN Log(S, <<"disposed", a, f>>)
  ELSE Throw(S, TypeError)

\* Actor.dispose(), a the index of the actor
Actor_dispose(S, a) ==
  LET f == S.actorDescriptors[S.actors[a].descriptor].disposed
  IN IF f # "null" THEN CallDisposed(S, a, f) ELSE S

\* --------------------------------------------------------------- the state
NoSub == [flags |-> {}, invalidator |-> "none", subscriber |-> "none",
          isCanceled |-> FALSE]

NoInvalidator == [created |-> FALSE, mtime |-> 0, subscriptions |-> Null,
                  transientSubscriptions |-> Null]

\* faulty variant: a constructor that starts mtime at 0, not at the clock
NewInvalidator_ZeroMtime ==
  [created |-> TRUE, mtime |-> 0, subscriptions |-> Null,
   transientSubscriptions |-> Null]

\* new kivi.Invalidator()
NewInvalidator == [created |-> TRUE, mtime |-> clock, subscriptions |-> Null,
                   transientSubscriptions |-> Null]

\* new kivi.Component(flags, descriptor, parent, data, children, element)
NewComponent(flags, descriptor, parent) ==
  [flags |-> flags, mtime |-> 0, descriptor |-> descriptor, parent |-> parent,
   root |-> "null", subscriptions |-> Null, transientSubscriptions |-> Null]

\* kivi.Component.create(descriptor, data, children, context)
Component_create(descriptor, context) ==
  NewComponent(SHOULD_UPDATE_FLAGS, descriptor, context)

\* kivi.Component.mount(descriptor, data, children, context, element)
Component_mount(descriptor, context) ==
  NewComponent(SHOULD_UPDATE_FLAGS \cup {MOUNTING}, descriptor, context)

\* c1 is created from d1 as a root component, c2 is mounted from d2 as its
\* child; no Invalidator and no subscription exists yet.
Init ==
  /\ clock = 0
  /\ queue = <<>>
  /\ eachFrame = <<>>
  /\ inv = [i \in Invs |-> NoInvalidator]
  /\ comp = [c \in Comps |-> IF c = "c1" THEN Component_create("d1", "null")
                             ELSE Component_mount("d2", "c1")]
  /\ subs = [s \in SubIds |-> NoSub]
  /\ nsubs = 0
  /\ op = <<"init">>
  /\ trace = <<>>
  /\ err = NoError
  /\ actorDescriptors = [d \in ActorDescs |-> NoActorDescriptor]
  /\ actors = <<>>

\* The heap after a top-level call becomes the state; the trace and the
\* exception are those of that call.
Commit(S, label) ==
  /\ Len(S.queue) <= MaxQueue
  /\ queue' = S.queue
  /\ eachFrame' = S.eachFrame
  /\ inv' = S.inv
  /\ comp' = S.comp
  /\ subs' = S.subs
  /\ trace' = S.trace
  /\ err' = S.err
  /\ op' = label
  /\ UNCHANGED <<actorDescriptors, actors>>

\* ------------------------------------------------------ top-level operations
Tick ==
  /\ clock < MaxClock
  /\ clock' = clock + 1
  /\ Commit(Heap, <<"tick">>)
  /\ UNCHANGED nsubs

CreateInvalidator(i) ==
  /\ ~inv[i].created
  /\ Commit([Heap EXCEPT !.inv[i] = NewInvalidator], <<"new Invalidator", i>>)
  /\ UNCHANGED <<clock, nsubs>>

\* user code: new kivi.InvalidatorSubscription(flags, i, fn); i.addSubscription(s)
SubscribeCallback(i, flags) ==
  /\ inv[i].created
  /\ nsubs < MaxSubs
  /\ nsubs' = nsubs + 1
  /\ LET s == nsubs + 1
         S == [Heap EXCEPT !.subs[s] = NewSubscription(flags, i, "fn")]
     IN Commit(Invalidator_addSubscription(S, i, s), <<"addSubscription", i, s>>)
  /\ UNCHANGED clock

Subscribe(c, i) ==
  /\ inv[i].created
  /\ nsubs < MaxSubs
  /\ nsubs' = nsubs + 1
  /\ Commit(Component_subscribe(Heap, c, i, nsubs + 1), <<"subscribe", c, i>>)
  /\ UNCHANGED clock

TransientSubscribe(c, i) ==
  /\ inv[i].created
  /\ nsubs < MaxSubs
  /\ nsubs' = nsubs + 1
  /\ Commit(Component_transientSubscribe(Heap, c, i, nsubs + 1),
            <<"transientSubscribe", c, i>>)
  /\ UNCHANGED clock

Cancel(s) ==
  /\ s <= nsubs
  /\ Commit(Subscription_cancel(Heap, s), <<"cancel", s>>)
  /\ UNCHANGED <<clock, nsubs>>

InvalidateInvalidator(i) ==
  /\ inv[i].created
  /\ Commit(Invalidator_invalidate(Heap, i), <<"Invalidator.invalidate", i>>)
  /\ UNCHANGED <<clock, nsubs>>

InvalidateComponent(c) ==
  /\ Commit(Component_invalidate(Heap, c), <<"Component.invalidate", c>>)
  /\ UNCHANGED <<clock, nsubs>>

Update(c) ==
  /\ Commit(Component_update(Heap, c), <<"update", c>>)
  /\ UNCHANGED <<clock, nsubs>>

FlushFrame ==
  /\ Commit(Scheduler_flushFrame(Heap), <<"flush">>)
  /\ UNCHANGED <<clock, nsubs>>

Dispose(c) ==
  /\ Commit(Component_dispose(Heap, c), <<"dispose", c>>)
  /\ UNCHANGED <<clock, nsubs>>

SyncVRoot(c, v) ==
  /\ comp[c].root # v
  /\ Commit(Component_syncVRoot(Heap, c, v), <<"syncVRoot", c, v>>)
  /\ UNCHANGED <<clock, nsubs>>

StartUpdateEachFrame(c) ==
  /\ Len(Component_startUpdateEachFrame(Heap, c).eachFrame) <= MaxEachFrame
  /\ Commit(Component_startUpdateEachFrame(Heap, c), <<"startUpdateEachFrame", c>>)
  /\ UNCHANGED <<clock, nsubs>>

StopUpdateEachFrame(c) ==
  /\ Commit(Component_stopUpdateEachFrame(Heap, c), <<"stopUpdateEachFrame", c>>)
  /\ UNCHANGED <<clock, nsubs>>

\* user code: a subscription whose subscriber is one of the handlers
AddHandler(i, flags, h) ==
  /\ inv[i].created
  /\ nsubs < MaxWaveSubs
  /\ nsubs' = nsubs + 1
  /\ LET s == nsubs + 1
         S == [Heap EXCEPT !.subs[s] = NewSubscription(flags, i, h)]
     IN Commit(Invalidator_addSubscription(S, i, s), <<"addSubscription", i, s>>)
  /\ UNCHANGED clock

\* every subscription a handler refers to has been constructed
HandlerTargetsExist ==
  \A s \in 1..nsubs :
    subs[s].subscriber \in DOMAIN CancelHandler =>
      CancelHandler[subs[s].subscriber] <= nsubs

InvalidateWithHandlers(i) ==
  /\ HandlerTargetsExist
  /\ InvalidateInvalidator(i)

UpdateEachFrame ==
  /\ eachFrame # <<>>
  /\ Commit(Scheduler_updateEachFrame(Heap), <<"updateEachFrame">>)
  /\ UNCHANGED <<clock, nsubs>>

\* The subscription graph around one component: c1 on the invalidator i1,
\* with callback subscribers beside it, rendered at most once.
Next ==
  \/ Tick
  \/ CreateInvalidator("i1")
  \/ \E f \in {{}, {TRANSIENT}} : SubscribeCallback("i1", f)
  \/ Subscribe("c1", "i1")
  \/ TransientSubscribe("c1", "i1")
  \/ \E s \in SubIds : Cancel(s)
  \/ InvalidateInvalidator("i1")
  \/ InvalidateComponent("c1")
  \/ Update("c1")
  \/ FlushFrame
  \/ Dispose("c1")
  \/ SyncVRoot("c1", "v1")

Spec == Init /\ [][Next]_vars

\* The lifecycle without the subscription graph: both components enter and
\* leave continuous mode and are rendered; the mounted component c2 is
\* invalidated, updated by frames and disposed.
NextLifecycle ==
  \/ Tick
  \/ \E c \in Comps :
       \/ StartUpdateEachFrame(c)
       \/ StopUpdateEachFrame(c)
  \/ \E c \in Comps, v \in VNodes : SyncVRoot(c, v)
  \/ InvalidateComponent("c2")
  \/ Update("c2")
  \/ Dispose("c2")
  \/ UpdateEachFrame
  \/ FlushFrame

SpecLifecycle == Init /\ [][NextLifecycle]_vars

\* One invalidator whose subscribers are handlers that cancel subscriptions
\* or invalidate again while a wave is running.
NextWave ==
  \/ Tick
  \/ CreateInvalidator("i1")
  \/ \E f \in {{}, {TRANSIENT}}, h \in Handlers : AddHandler("i1", f, h)
  \/ \E s \in SubIds : Cancel(s)
  \/ InvalidateWithHandlers("i1")

SpecWave == Init /\ [][NextWave]_vars

\* how many subscriptions a wave constructs through the handler of s: the
\* handler adds one; the one "fnAddChain" adds is notified by the same wave,
\* and adds another, when "fnAddChain" runs in the durable phase
AddsOf(s) ==
  IF subs[s].subscriber = "fnAddChain"
  THEN IF TRANSIENT \in subs[s].flags THEN 1 ELSE 2
  ELSE IF subs[s].subscriber = "fnAddTransient" THEN 1 ELSE 0

RECURSIVE SumAdds(_, _)
SumAdds(q, k) == IF k > Len(q) THEN 0 ELSE AddsOf(q[k]) + SumAdds(q, k + 1)

\* how many subscriptions the handlers of an invalidate() call on i construct
Additions(i) ==
  IF inv[i].mtime < clock
  THEN SumAdds(inv[i].subscriptions.items, 1) +
       SumAdds(inv[i].transientSubscriptions.items, 1)
  ELSE 0

\* i.invalidate() when handlers construct subscriptions during the wave
InvalidateGrowing(i) ==
  /\ inv[i].created
  /\ nsubs + Additions(i) <= MaxGrowSubs
  /\ nsubs' = nsubs + Additions(i)
  /\ Commit(Invalidator_invalidate(Heap, i), <<"Invalidator.invalidate", i>>)
  /\ UNCHANGED clock

\* One invalidator whose subscribers are handlers that subscribe to it again
\* while a wave is running; between waves subscriptions are canceled.
NextGrow ==
  \/ Tick
  \/ CreateInvalidator("i1")
  \/ \E f \in {{}, {TRANSIENT}}, h \in {"fn"} \cup DOMAIN AddedSubscriber :
       AddHandler("i1", f, h)
  \/ \E s \in SubIds : Cancel(s)
  \/ InvalidateGrowing("i1")

SpecGrow == Init /\ [][NextGrow]_vars

\* user code: c.update() / the frame flush, with update hooks that call back
UpdateWith(c, h) ==
  /\ h = "fire" => inv[HookInvalidator].created
  /\ Commit(Component_updateWith(Heap, c, h), <<"update", c, h>>)
  /\ UNCHANGED <<clock, nsubs>>

FlushFrameWith(h) ==
  /\ h = "fire" => inv[HookInvalidator].created
  /\ Commit(Scheduler_flushFrameWith(Heap, h), <<"flush", h>>)
  /\ UNCHANGED <<clock, nsubs>>

\* The component c1 with update hooks that invalidate it or fire the
\* invalidator i1 while update() is running; c1 subscribes to i1 durably and
\* transiently, c2 transiently, beside a callback subscriber.
NextHook ==
  \/ Tick
  \/ CreateInvalidator("i1")
  \/ SubscribeCallback("i1", {})
  \/ Subscribe("c1", "i1")
  \/ TransientSubscribe("c1", "i1")
  \/ TransientSubscribe("c2", "i1")
  \/ InvalidateInvalidator("i1")
  \/ InvalidateComponent("c1")
  \/ Update("c2")
  \/ \E h \in UpdateHooks : UpdateWith("c1", h)
  \/ \E h \in UpdateHooks : FlushFrameWith(h)

SpecHook == Init /\ [][NextHook]_vars

\* ------------------------------------------------ actors: operations
CommitActor(S, label) ==
  /\ actorDescriptors' = S.actorDescriptors
  /\ actors' = S.actors
  /\ trace' = S.trace
  /\ err' = S.err
  /\ op' = label
  /\ UNCHANGED <<clock, queue, eachFrame, inv, comp, subs, nsubs>>

CreateActorDescriptor(d) ==
  /\ ~actorDescriptors[d].created
  /\ CommitActor([ActorHeap EXCEPT !.actorDescriptors[d] = NewActorDescriptor],
                 <<"new ActorDescriptor", d>>)

SetCreateState(d, h) ==
  /\ actorDescriptors[d].created
  /\ CommitActor(ActorDescriptor_createState(ActorHeap, d, h), <<"createState", d, h>>)

SetInit(d, h) ==
  /\ actorDescriptors[d].created
  /\ CommitActor(ActorDescriptor_init(ActorHeap, d, h), <<"init", d, h>>)

SetDisposed(d, h) ==
  /\ actorDescriptors[d].created
  /\ CommitActor(ActorDescriptor_disposed(ActorHeap, d, h), <<"disposed", d, h>>)

CreateActor(d, props) ==
  /\ actorDescriptors[d].created
  /\ Len(actors) < MaxActors
  /\ CommitActor(ActorDescriptor_create(ActorHeap, d, props), <<"create", d, props>>)

DisposeActor(a) ==
  /\ a <= Len(actors)
  /\ CommitActor(Actor_dispose(ActorHeap, a), <<"Actor.dispose", a>>)

\* Descriptors are built, given handlers, and instantiated; actors are
\* disposed, any number of times.
NextActor ==
  \/ \E d \in ActorDescs : CreateActorDescriptor(d)
  \/ \E d \in ActorDescs : SetCreateState(d, "h1")
  \/ \E d \in ActorDescs : SetInit(d, "h1")
  \/ \E d \in ActorDescs, h \in ActorHandlers : SetDisposed(d, h)
  \/ \E d \in ActorDescs, p \in ActorProps : CreateActor(d, p)
  \/ \E a \in 1..MaxActors : DisposeActor(a)

SpecActor == Init /\ [][NextActor]_vars

\* ------------------------------------------------------------ observations
IsOp(o, name, arg) == o[1] = name /\ o[2] = arg

\* how often the last operation did <<kind, arg, ...>>
CountEv(tr, kind, arg) ==
  Cardinality({k \in 1..Len(tr) : tr[k][1] = kind /\ tr[k][2] = arg})

Notified(tr, s) == CountEv(tr, "notify", s)

Allocated == 1..nsubs

\* a wave: Invalidator.invalidate() called with mtime < clock
WaveStarts(i) == inv[i].created /\ inv[i].mtime < clock

HeapUnchanged == UNCHANGED <<inv, comp, subs, queue, eachFrame>>

\* ------------------------------------------------------------------ claims

\* the subscriber of s was reached through another of its subscriptions
NotifiedThroughOther(tr, s) ==
  /\ COMPONENT \in subs[s].flags
  /\ \E r \in Allocated \ {s} :
       subs[r].subscriber = subs[s].subscriber /\ Notified(tr, r) > 0

\* C1 (dedup per tick): an invalidate() call that finds mtime < clock notifies
\* every durable subscription of the invalidator exactly once, and consumes
\* every transient one and notifies it exactly once (a transient subscription
\* that its own component canceled on being notified earlier in the wave
\* counts as served); a call that finds mtime = clock (the 2nd to Nth call of
\* the tick) notifies nobody and changes no state.
C1_DedupPerTick ==
  [][\A i \in Invs :
       IsOp(op', "Invalidator.invalidate", i) =>
         IF WaveStarts(i)
         THEN /\ \A s \in Members(inv[i].subscriptions) : Notified(trace', s) = 1
              /\ \A s \in Members(inv[i].transientSubscriptions) :
                   /\ s \notin Members(inv'[i].transientSubscriptions)
                   /\ \/ Notified(trace', s) = 1
                      \/ Notified(trace', s) = 0 /\ NotifiedThroughOther(trace', s)
         ELSE /\ trace' = <<>>
              /\ HeapUnchanged]_vars

\* C2 (unordered removal): in a wave no canceled subscription is notified, and
\* every durable subscription that was added and not removed (not canceled,
\* its component not disposed) is notified.
C2_UnorderedRemoval ==
  [][\A i \in Invs :
       (IsOp(op', "Invalidator.invalidate", i) /\ WaveStarts(i)) =>
         \A s \in Allocated :
           /\ subs[s].isCanceled => Notified(trace', s) = 0
           /\ ( /\ subs[s].invalidator = i
                /\ TRANSIENT \notin subs[s].flags
                /\ ~subs[s].isCanceled
                /\ COMPONENT \in subs[s].flags =>
                     DISPOSED \notin comp[subs[s].subscriber].flags )
              => Notified(trace', s) >= 1]_vars

\* C3 (transient one-shot): a wave completes without error, every transient
\* subscription it notified is out of the invalidator's transient set
\* afterwards, and a transient subscription that was no longer in the set
\* when the wave started is not notified by it.
C3_TransientOneShot ==
  [][\A i \in Invs :
       (IsOp(op', "Invalidator.invalidate", i) /\ WaveStarts(i)) =>
         /\ err' = NoError
         /\ \A s \in Allocated :
              TRANSIENT \in subs[s].flags =>
                /\ Notified(trace', s) > 0 =>
                     s \notin Members(inv'[i].transientSubscriptions)
                /\ s \notin Members(inv[i].transientSubscriptions) =>
                     Notified(trace', s) = 0]_vars

\* C4 (no dangling references): after every top-level operation that
\* completed, a component-flavoured subscription is in its component's
\* mirrored set iff it is in the matching set of its invalidator.
C4_NoDangling ==
  err = NoError =>
    \A s \in Allocated :
      COMPONENT \in subs[s].flags =>
        ( s \in Members(comp[subs[s].subscriber][SetField(subs[s])])
          <=> s \in Members(inv[subs[s].invalidator][SetField(subs[s])]) )

\* C5 (dirty collapse): invalidate() on a component that is neither Dirty nor
\* Disposed sets Dirty and adds exactly one registration to the next-frame
\* queue; on an already Dirty component it adds none and changes no state;
\* the frame flush runs the update hook of a queued Dirty component exactly
\* once, however often it is queued.
C5_DirtyCollapse ==
  [][\A c \in Comps :
       /\ (IsOp(op', "Component.invalidate", c) /\ DISPOSED \notin comp[c].flags) =>
            IF DIRTY \in comp[c].flags
            THEN trace' = <<>> /\ HeapUnchanged
            ELSE /\ DIRTY \in comp'[c].flags
                 /\ queue' = Append(queue, c)
                 /\ CountEv(trace', "nextFrame", c) = 1
       /\ ( /\ op'[1] = "flush"
            /\ Count(queue, c) > 0
            /\ DIRTY \in comp[c].flags
            /\ DISPOSED \notin comp[c].flags ) =>
            CountEv(trace', "update", c) = 1]_vars

Ready(c) == SHOULD_UPDATE_FLAGS \subseteq comp[c].flags

\* C6 (update gating): update() on a component whose flags lack part of the
\* readiness mask invokes no hook and leaves the component (flags, mtime) and
\* everything else unchanged; when the mask is satisfied it invokes the
\* update hook exactly once, sets mtime to the clock and clears Dirty, and
\* nothing else.  The same holds for each update() a frame flush performs.
C6_UpdateGating ==
  [][\A c \in Comps :
       /\ IsOp(op', "update", c) =>
            /\ err' = NoError
            /\ UNCHANGED <<inv, subs, queue, eachFrame>>
            /\ \A d \in Comps \ {c} : comp'[d] = comp[d]
            /\ IF Ready(c)
               THEN /\ trace' = << <<"update", c>> >>
                    /\ comp'[c] = [comp[c] EXCEPT !.mtime = clock,
                                                  !.flags = @ \ {DIRTY}]
               ELSE /\ trace' = <<>>
                    /\ comp'[c] = comp[c]
       /\ op'[1] = "flush" =>
            IF Count(queue, c) > 0 /\ Ready(c)
            THEN /\ CountEv(trace', "update", c) = 1
                 /\ comp'[c] = [comp[c] EXCEPT !.mtime = clock,
                                               !.flags = @ \ {DIRTY}]
            ELSE /\ CountEv(trace', "update", c) = 0
                 /\ comp'[c] = comp[c]]_vars

\* a Dirty component that is not Attached was handed to update(): nothing ran
C6_Witness ==
  /\ IsOp(op, "update", "c1")
  /\ DIRTY \in comp["c1"].flags
  /\ ATTACHED \notin comp["c1"].flags
  /\ comp["c1"].mtime < clock
  /\ trace = <<>>

DurablySubscribed(c, i) ==
  \E s \in Members(inv[i].subscriptions) :
    COMPONENT \in subs[s].flags /\ subs[s].subscriber = c

\* C7 as stated (end to end): a wave of I at a later clock than I's creation,
\* with the factory-made component C durably subscribed to I, leaves C Dirty,
\* with an empty transient set and registered in the next-frame queue; the
\* flush of that frame runs C's update hook exactly once, sets C.mtime to the
\* clock and clears Dirty.
C7_EndToEnd ==
  [][\A c \in Comps, i \in Invs :
       /\ ( /\ IsOp(op', "Invalidator.invalidate", i)
            /\ WaveStarts(i)
            /\ DurablySubscribed(c, i)
            /\ comp[c].transientSubscriptions = Null
            /\ comp[c].flags \cap {DISPOSED, MOUNTING} = {} ) =>
            /\ DIRTY \in comp'[c].flags
            /\ comp'[c].transientSubscriptions = Null
            /\ Count(queue', c) >= 1
       /\ ( /\ op'[1] = "flush"
            /\ Count(queue, c) >= 1
            /\ comp[c].flags \cap {DISPOSED, MOUNTING} = {} ) =>
            /\ CountEv(trace', "update", c) = 1
            /\ comp'[c].mtime = clock
            /\ DIRTY \notin comp'[c].flags]_vars

\* C7 amended: the same, for a component that has been updated since it was
\* created, so that it is not Dirty when the wave starts: the wave sets
\* Dirty and registers C exactly once; the flush then runs the hook once.
C7_EndToEndAfterUpdate ==
  [][\A c \in Comps, i \in Invs :
       /\ ( /\ IsOp(op', "Invalidator.invalidate", i)
            /\ WaveStarts(i)
            /\ DurablySubscribed(c, i)
            /\ comp[c].transientSubscriptions = Null
            /\ comp[c].flags \cap {DISPOSED, MOUNTING, DIRTY} = {} ) =>
            /\ err' = NoError
            /\ DIRTY \in comp'[c].flags
            /\ comp'[c].transientSubscriptions = Null
            /\ queue' = Append(queue, c)
            /\ CountEv(trace', "nextFrame", c) = 1
       /\ ( /\ op'[1] = "flush"
            /\ Count(queue, c) >= 1
            /\ DIRTY \in comp[c].flags
            /\ comp[c].flags \cap {DISPOSED, MOUNTING} = {} ) =>
            /\ CountEv(trace', "update", c) = 1
            /\ comp'[c].mtime = clock
            /\ DIRTY \notin comp'[c].flags]_vars

\* I was created at clock 0, C updated and durably subscribed; the wave at
\* clock 1 has just made C Dirty and queued it
C7_Witness ==
  /\ IsOp(op, "Invalidator.invalidate", "i1")
  /\ clock = 1
  /\ inv["i1"].mtime = 1
  /\ DurablySubscribed("c1", "i1")
  /\ CountEv(trace, "nextFrame", "c1") = 1
  /\ DIRTY \in comp["c1"].flags
  /\ queue = <<"c1">>

DisposeCalls(c) ==
  (IF comp[c].root # "null" THEN << <<"root.dispose", c, comp[c].root>> >> ELSE <<>>)
  \o (IF Descriptors[comp[c].descriptor].disposed THEN << <<"disposed", c>> >> ELSE <<>>)

\* C9 (dispose postcondition): dispose() on a component that is not Disposed
\* sets Disposed, clears Attached and UpdateEachFrame, empties both of the
\* component's sets, leaves none of its subscriptions in any invalidator's
\* set, disposes the root (if any) once and then invokes the disposed hook
\* (if any) once, and leaves parent and descriptor alone.
C9_DisposePostcondition ==
  [][\A c \in Comps :
       (IsOp(op', "dispose", c) /\ DISPOSED \notin comp[c].flags) =>
         /\ err' = NoError
         /\ DISPOSED \in comp'[c].flags
         /\ comp'[c].flags \cap {ATTACHED, UPDATE_EACH_FRAME} = {}
         /\ comp'[c].subscriptions = Null
         /\ comp'[c].transientSubscriptions = Null
         /\ \A s \in Allocated, i \in Invs :
              (COMPONENT \in subs[s].flags /\ subs[s].subscriber = c) =>
                /\ s \notin Members(inv'[i].subscriptions)
                /\ s \notin Members(inv'[i].transientSubscriptions)
         /\ trace' = DisposeCalls(c)
         /\ comp'[c].parent = comp[c].parent
         /\ comp'[c].descriptor = comp[c].descriptor]_vars

\* C10 (a Disposed component is never updated): once Disposed is set it stays
\* set, and no later operation invokes the component's update hook or adds a
\* registration of it to the next-frame queue.
C10_DisposedNeverUpdated ==
  [][\A c \in Comps :
       DISPOSED \in comp[c].flags =>
         /\ DISPOSED \in comp'[c].flags
         /\ CountEv(trace', "update", c) = 0
         /\ CountEv(trace', "nextFrame", c) = 0
         /\ Count(queue', c) <= Count(queue, c)]_vars

\* a wave has just notified a subscription of a Disposed component that was
\* left in the invalidator's set, and the component stayed out of the queue
C10_Witness ==
  /\ IsOp(op, "Invalidator.invalidate", "i1")
  /\ DISPOSED \in comp["c1"].flags
  /\ DIRTY \notin comp["c1"].flags
  /\ \E s \in Allocated :
       /\ subs[s].subscriber = "c1"
       /\ Notified(trace, s) = 1
  /\ Count(queue, "c1") = 0

\* the last operation called c.invalidate(): directly, or from a wave that
\* notified one of c's subscriptions
InvalidateReached(c) ==
  \/ IsOp(op', "Component.invalidate", c)
  \/ /\ op'[1] = "Invalidator.invalidate"
     /\ \E s \in Allocated :
          /\ COMPONENT \in subs[s].flags
          /\ subs[s].subscriber = c
          /\ Notified(trace', s) > 0

\* C11 (transient subscriptions do not leak): an operation that calls
\* invalidate() on a component that is neither Dirty nor Disposed completes
\* without error, leaves the component's transient set empty and none of
\* those subscriptions in its invalidator's transient set, whether the call
\* is direct or comes from a wave (also of an invalidator the component is
\* transiently subscribed to); the component's durable set and the durable
\* sets of the invalidators are as before.
C11_TransientNoLeak ==
  [][\A c \in Comps :
       (InvalidateReached(c) /\ comp[c].flags \cap {DIRTY, DISPOSED} = {}) =>
         /\ err' = NoError
         /\ comp'[c].transientSubscriptions = Null
         /\ \A s \in Members(comp[c].transientSubscriptions) :
              s \notin Members(inv'[subs[s].invalidator].transientSubscriptions)
         /\ comp'[c].subscriptions = comp[c].subscriptions
         /\ \A i \in Invs : inv'[i].subscriptions = inv[i].subscriptions]_vars

\* the collection lost exactly s: s is gone, every other element is kept
RemovedExactly(before, after, s) ==
  /\ Count(after.items, s) = 0
  /\ \A r \in SubIds \ {s} : Count(after.items, r) = Count(before.items, r)

OtherField(f) ==
  IF f = "subscriptions" THEN "transientSubscriptions" ELSE "subscriptions"

\* C12 (cancel): cancel() on a subscription that is not canceled and is in
\* its invalidator's set completes, removes exactly that subscription from
\* the invalidator's set of its durability and, for a component subscriber,
\* from the component's mirrored set, and leaves every other set alone; a
\* cancel() on a canceled subscription throws the canceled-twice error and
\* changes nothing.
C12_Cancel ==
  [][\A s \in Allocated :
       IsOp(op', "cancel", s) =>
         LET i == subs[s].invalidator
             f == SetField(subs[s])
             c == subs[s].subscriber
         IN IF subs[s].isCanceled
            THEN err' = ErrCancelTwice /\ HeapUnchanged
            ELSE s \in Members(inv[i][f]) =>
                   /\ err' = NoError
                   /\ RemovedExactly(inv[i][f], inv'[i][f], s)
                   /\ inv'[i][OtherField(f)] = inv[i][OtherField(f)]
                   /\ \A j \in Invs \ {i} : inv'[j] = inv[j]
                   /\ COMPONENT \in subs[s].flags =>
                        /\ RemovedExactly(comp[c][f], comp'[c][f], s)
                        /\ comp'[c][OtherField(f)] = comp[c][OtherField(f)]]_vars

\* C13 (continuous mode registers once): a component in continuous mode is in
\* the scheduler's recurring set exactly once and no component is in it
\* twice; startUpdateEachFrame() sets UPDATE_EACH_FRAME and registers (setting
\* IN_UPDATE_QUEUE) only when IN_UPDATE_QUEUE is clear; stopUpdateEachFrame()
\* clears UPDATE_EACH_FRAME and nothing else.
C13_EachFrameOnce ==
  /\ [](\A c \in Comps :
          /\ Count(eachFrame, c) <= 1
          /\ UPDATE_EACH_FRAME \in comp[c].flags => Count(eachFrame, c) = 1)
  /\ [][\A c \in Comps :
          /\ IsOp(op', "startUpdateEachFrame", c) =>
               /\ err' = NoError
               /\ UNCHANGED <<inv, subs, queue>>
               /\ \A d \in Comps \ {c} : comp'[d] = comp[d]
               /\ IF IN_UPDATE_QUEUE \in comp[c].flags
                  THEN /\ trace' = <<>>
                       /\ eachFrame' = eachFrame
                       /\ comp'[c] = [comp[c] EXCEPT !.flags = @ \cup {UPDATE_EACH_FRAME}]
                  ELSE /\ trace' = << <<"eachFrame", c>> >>
                       /\ eachFrame' = Append(eachFrame, c)
                       /\ comp'[c] = [comp[c] EXCEPT !.flags =
                                        @ \cup {UPDATE_EACH_FRAME, IN_UPDATE_QUEUE}]
          /\ IsOp(op', "stopUpdateEachFrame", c) =>
               /\ err' = NoError
               /\ trace' = <<>>
               /\ UNCHANGED <<inv, subs, queue, eachFrame>>
               /\ comp' = [comp EXCEPT ![c].flags = @ \ {UPDATE_EACH_FRAME}]]_vars

\* startUpdateEachFrame() was called on a component that was already
\* registered: it is in continuous mode and nothing was added
C13_Witness ==
  /\ IsOp(op, "startUpdateEachFrame", "c1")
  /\ trace = <<>>
  /\ UPDATE_EACH_FRAME \in comp["c1"].flags
  /\ IN_UPDATE_QUEUE \in comp["c1"].flags
  /\ Count(eachFrame, "c1") = 1

\* C14 (hasSubscriptions): on every created invalidator hasSubscriptions()
\* is true exactly when one of the two sets holds a subscription, whatever
\* the shape of the sets, and it is false once every subscription ever added
\* to the invalidator has been canceled.
C14_HasSubscriptions ==
  \A i \in Invs :
    inv[i].created =>
      /\ Invalidator_hasSubscriptions(Heap, i) <=>
           (Members(inv[i].subscriptions) \cup
              Members(inv[i].transientSubscriptions)) # {}
      /\ (\A s \in Allocated : subs[s].invalidator = i => subs[s].isCanceled) =>
           ~Invalidator_hasSubscriptions(Heap, i)

\* C15 (mtime is monotone): the mtime of an invalidator never exceeds the
\* clock and never decreases; it changes only in an invalidate() call that
\* finds mtime < clock, which sets it to the clock (also when the wave is
\* cut short by an exception); an invalidate() call that finds mtime = clock
\* notifies nobody, so each clock value sees at most one wave.
C15_MtimeMonotone ==
  /\ [](\A i \in Invs : inv[i].mtime <= clock)
  /\ [][\A i \in Invs :
          inv[i].created =>
            /\ inv'[i].mtime >= inv[i].mtime
            /\ inv'[i].mtime # inv[i].mtime =>
                 IsOp(op', "Invalidator.invalidate", i) /\ WaveStarts(i)
            /\ IsOp(op', "Invalidator.invalidate", i) =>
                 IF WaveStarts(i)
                 THEN inv'[i].mtime = clock /\ ~WaveStarts(i)'
                 ELSE trace' = <<>> /\ HeapUnchanged]_vars

\* a wave at clock 2 of an invalidator with a subscriber: mtime is now 2
C15_Witness ==
  /\ IsOp(op, "Invalidator.invalidate", "i1")
  /\ clock = 2
  /\ inv["i1"].mtime = 2
  /\ \E s \in Allocated : Notified(trace, s) = 1

\* no handler cancels the subscription it is the subscriber of
NoSelfCancel ==
  \A s \in Allocated :
    subs[s].subscriber \in DOMAIN CancelHandler =>
      CancelHandler[subs[s].subscriber] # s

\* C16 (snapshot iteration of the durable set): in a wave that runs to its
\* end, every durable subscription that was in the set when the wave started
\* and is not canceled (neither before nor during the wave) is notified
\* exactly once, also when handlers of the wave cancel other durable
\* subscriptions of the invalidator (never their own).
C16_SnapshotIteration ==
  [][\A i \in Invs :
       ( /\ IsOp(op', "Invalidator.invalidate", i)
         /\ WaveStarts(i)
         /\ NoSelfCancel
         /\ err' = NoError ) =>
         \A s \in Members(inv[i].subscriptions) :
           (~subs[s].isCanceled /\ ~subs'[s].isCanceled) =>
             Notified(trace', s) = 1]_vars

\* the subscribers of i are functions that cancel nothing
OnlyPlainHandlers(i) ==
  \A s \in Members(inv[i].subscriptions) \cup Members(inv[i].transientSubscriptions) :
    subs[s].subscriber \in {"fn", "fnInvalidate"}

\* how often the last operation did something of this kind
CountKind(tr, kind) == Cardinality({k \in 1..Len(tr) : tr[k][1] = kind})

\* C17 (re-entrant invalidation is absorbed): whatever the handlers of a
\* wave of I do, nobody is notified twice by it (a nested I.invalidate()
\* starts no wave).  In a wave whose handlers cancel nothing, some of them
\* calling I.invalidate() again, the wave completes; every subscriber in
\* either set is notified exactly once and nobody else is; the durable set is
\* untouched, the transient set is consumed once, and nothing else changes.
C17_ReentrantAbsorbed ==
  [][\A i \in Invs :
       /\ (IsOp(op', "Invalidator.invalidate", i) /\ WaveStarts(i)) =>
            \A s \in Allocated : Notified(trace', s) <= 1
       /\ ( /\ IsOp(op', "Invalidator.invalidate", i)
            /\ WaveStarts(i)
            /\ OnlyPlainHandlers(i) ) =>
         /\ err' = NoError
         /\ \A s \in Allocated :
              Notified(trace', s) =
                IF s \in Members(inv[i].subscriptions) \cup
                         Members(inv[i].transientSubscriptions)
                THEN 1 ELSE 0
         /\ \A s \in Allocated :
              CountEv(trace', "reenter", s) =
                IF /\ s \in Members(inv[i].subscriptions) \cup
                            Members(inv[i].transientSubscriptions)
                   /\ subs[s].subscriber = "fnInvalidate"
                THEN 1 ELSE 0
         /\ CountKind(trace', "notify") = CountKind(trace', "call")
         /\ Len(trace') = 2 * CountKind(trace', "notify") + CountKind(trace', "reenter")
                         + CountKind(trace', "clear")
         /\ inv' = [inv EXCEPT ![i].mtime = clock,
                               ![i].transientSubscriptions = Null]
         /\ UNCHANGED <<comp, subs, queue, eachFrame>>]_vars

\* the first durable subscriber called I.invalidate() inside the wave, and a
\* later subscriber was still notified, once
C17_Witness ==
  /\ IsOp(op, "Invalidator.invalidate", "i1")
  /\ err = NoError
  /\ nsubs >= 2
  /\ subs[1].subscriber = "fnInvalidate"
  /\ Len(trace) > 0
  /\ trace[1][1] = "notify"
  /\ trace[1][2] = 1
  /\ CountEv(trace, "reenter", 1) = 1
  /\ Notified(trace, 1) = 1
  /\ Notified(trace, 2) = 1

\* the event is the notification of a subscription of the given durability
IsNotifyOf(ev, transient) ==
  /\ ev[1] = "notify"
  /\ (TRANSIENT \in subs[ev[2]].flags) = transient

\* C18 (ordering within a wave): in the trace of a wave no notification of
\* a durable subscription comes after the clearing of the transient set or
\* after the notification of a transient subscription, and the transient
\* set is cleared before the first transient subscription is notified.
C18_DurableBeforeTransient ==
  [][\A i \in Invs :
       (IsOp(op', "Invalidator.invalidate", i) /\ WaveStarts(i)) =>
         \A p, q \in 1..Len(trace') :
           /\ ( /\ IsNotifyOf(trace'[p], FALSE)
                /\ trace'[q][1] = "clear" \/ IsNotifyOf(trace'[q], TRUE) ) => p < q
           /\ (trace'[p][1] = "clear" /\ IsNotifyOf(trace'[q], TRUE)) => p < q]_vars

\* a wave notified two durable subscriptions, cleared the transient set and
\* then notified the transient subscription
C18_Witness ==
  /\ IsOp(op, "Invalidator.invalidate", "i1")
  /\ err = NoError
  /\ CountKind(trace, "clear") = 1
  /\ \E s, r, u \in Allocated :
       /\ s # r
       /\ TRANSIENT \notin subs[s].flags /\ Notified(trace, s) = 1
       /\ TRANSIENT \notin subs[r].flags /\ Notified(trace, r) = 1
       /\ TRANSIENT \in subs[u].flags /\ Notified(trace, u) = 1

\* C19 (syncVRoot): the first syncVRoot(v) of a component (no root yet) goes
\* to the renderer's mount entry point iff MOUNTING is set, and clears it,
\* otherwise to the render entry point; a later call goes to sync(v, owner)
\* on the previous root; after every call the root is v and nothing else has
\* changed.  No operation sets MOUNTING or takes the root away again, so
\* mount is used at most once per component.
C19_SyncVRoot ==
  [][\A c \in Comps :
       /\ (op'[1] = "syncVRoot" /\ op'[2] = c) =>
            LET v == op'[3] IN
            /\ err' = NoError
            /\ UNCHANGED <<inv, subs, queue, eachFrame>>
            /\ \A d \in Comps \ {c} : comp'[d] = comp[d]
            /\ IF comp[c].root = "null"
               THEN IF MOUNTING \in comp[c].flags
                    THEN /\ trace' = << <<"mount", c, v>> >>
                         /\ comp'[c] = [comp[c] EXCEPT !.root = v,
                                                       !.flags = @ \ {MOUNTING}]
                    ELSE /\ trace' = << <<"render", c, v>> >>
                         /\ comp'[c] = [comp[c] EXCEPT !.root = v]
               ELSE /\ trace' = << <<"sync", c, comp[c].root, v>> >>
                    /\ comp'[c] = [comp[c] EXCEPT !.root = v]
       /\ MOUNTING \notin comp[c].flags => MOUNTING \notin comp'[c].flags
       /\ comp[c].root # "null" => comp'[c].root # "null"
       /\ CountEv(trace', "mount", c) > 0 =>
            MOUNTING \in comp[c].flags /\ comp[c].root = "null"]_vars

\* the mounted component was handed a second root: sync on the previous one
C19_Witness ==
  /\ op = <<"syncVRoot", "c2", "v2">>
  /\ trace = << <<"sync", "c2", "v1", "v2">> >>
  /\ comp["c2"].root = "v2"
  /\ MOUNTING \notin comp["c2"].flags

\* C20 (removing a subscription that is not present): cancel() on a
\* subscription that is not canceled and is not in its invalidator's set of
\* its durability (a transient one consumed by a wave, one removed by
\* dispose()) reaches Invalidator.removeSubscription, which throws the
\* 'cannot find appropriate subscription' error and leaves both sets of the
\* invalidator as they were, whatever the shape of the set: empty, one
\* subscription, an array.
C20_RemoveNotPresent ==
  [][\A s \in Allocated :
       ( /\ IsOp(op', "cancel", s)
         /\ ~subs[s].isCanceled
         /\ s \notin Members(inv[subs[s].invalidator][SetField(subs[s])]) ) =>
         /\ err' = ErrInvalidatorRemove
         /\ inv' = inv]_vars

\* the same, for the shapes that hold at least one subscription
C20_RemoveNotPresentNonEmpty ==
  [][\A s \in Allocated :
       ( /\ IsOp(op', "cancel", s)
         /\ ~subs[s].isCanceled
         /\ s \notin Members(inv[subs[s].invalidator][SetField(subs[s])])
         /\ inv[subs[s].invalidator][SetField(subs[s])] # Null ) =>
         /\ err' = ErrInvalidatorRemove
         /\ inv' = inv]_vars

\* C23 (construction tick): the constructor sets mtime to the clock and both
\* sets to empty; as long as the clock keeps that value mtime stays equal to
\* it, whatever is subscribed or canceled, and every invalidate() call on the
\* invalidator notifies nobody, consumes no transient subscription and
\* changes nothing; a subscription of the invalidator is notified only by an
\* operation that found mtime < clock, hence after the clock has advanced
\* past the value it had at construction.
C23_ConstructionTick ==
  [][\A i \in Invs :
       /\ IsOp(op', "new Invalidator", i) =>
            /\ inv'[i].mtime = clock'
            /\ inv'[i].subscriptions = Null
            /\ inv'[i].transientSubscriptions = Null
       /\ (inv[i].created /\ inv[i].mtime = clock /\ clock' = clock) =>
            /\ inv'[i].mtime = clock'
            /\ IsOp(op', "Invalidator.invalidate", i) =>
                 /\ trace' = <<>>
                 /\ err' = NoError
                 /\ HeapUnchanged
       /\ \A s \in Allocated :
            (subs[s].invalidator = i /\ Notified(trace', s) > 0) =>
              inv[i].created /\ inv[i].mtime < clock]_vars

\* invalidate() was called at the clock of construction on an invalidator
\* that holds a durable and a transient subscription: nobody was notified and
\* both are still in their sets
C23_Witness ==
  /\ IsOp(op, "Invalidator.invalidate", "i1")
  /\ clock = 0
  /\ inv["i1"].mtime = 0
  /\ trace = <<>>
  /\ err = NoError
  /\ inv["i1"].subscriptions # Null
  /\ inv["i1"].transientSubscriptions # Null

\* C24 (Actor.dispose): dispose() on an actor whose descriptor was given a
\* disposed handler with ActorDescriptor.disposed(handler) calls that handler
\* exactly once, and nothing else; on an actor whose descriptor was never
\* given one it completes without error and calls nothing.  Neither changes
\* an actor or a descriptor.
C24_ActorDispose ==
  [][\A a \in 1..Len(actors) :
       IsOp(op', "Actor.dispose", a) =>
         LET f == actorDescriptors[actors[a].descriptor].disposed
         IN /\ err' = NoError
            /\ UNCHANGED <<actorDescriptors, actors>>
            /\ IF f \in ActorHandlers
               THEN trace' = << <<"disposed", a, f>> >>
               ELSE trace' = <<>>]_vars

\* the half that the code keeps: with a registered handler
C24_ActorDisposeRegistered ==
  [][\A a \in 1..Len(actors) :
       ( /\ IsOp(op', "Actor.dispose", a)
         /\ actorDescriptors[actors[a].descriptor].disposed \in ActorHandlers ) =>
         /\ err' = NoError
         /\ UNCHANGED <<actorDescriptors, actors>>
         /\ trace' = << <<"disposed", a,
                          actorDescriptors[actors[a].descriptor].disposed>> >>]_vars

\* event q of the trace happened while the update hook of c was running
InHookOf(tr, q, c) ==
  \E p \in 1..(q - 1) :
    /\ tr[p][1] = "update"
    /\ tr[p][2] = c
    /\ \A r \in (p + 1)..(q - 1) : tr[r][1] # "update"

\* the operation called c.invalidate() while c's update hook was running:
\* the hook called it, or a wave started by the hook notified one of c's
\* subscriptions
InvalidatedInHook(tr, c) ==
  \E q \in 1..Len(tr) :
    /\ InHookOf(tr, q, c)
    /\ \/ tr[q][1] = "hook.invalidate" /\ tr[q][2] = c
       \/ /\ tr[q][1] = "notify"
          /\ COMPONENT \in subs[tr[q][2]].flags
          /\ subs[tr[q][2]].subscriber = c

\* the last operation was c.update() with a hook that calls back
IsUpdateWith(o, c) == Len(o) = 3 /\ o[1] = "update" /\ o[2] = c

\* C21 (invalidation during an update is not replayed): when invalidate() is
\* called on a component while its own update hook is running, directly or
\* by a wave of an invalidator it subscribed to, the component is Dirty and
\* the call does nothing (no registration in the next-frame queue, no
\* transient subscription canceled); when the update() or the frame flush
\* returns, the component is not Dirty, its mtime is the clock, and the queue
\* holds no registration of it that was not there before (none at all after
\* a flush).
C21_NoReplay ==
  [][\A c \in Comps :
       ( /\ IsUpdateWith(op', c) \/ op'[1] = "flush"
         /\ InvalidatedInHook(trace', c) ) =>
         /\ DIRTY \in comp[c].flags
         /\ CountEv(trace', "nextFrame", c) = 0
         /\ comp'[c].subscriptions = comp[c].subscriptions
         /\ comp'[c].transientSubscriptions = comp[c].transientSubscriptions
         /\ Count(queue', c) <= Count(queue, c)
         /\ err' = NoError =>
              /\ DIRTY \notin comp'[c].flags
              /\ comp'[c].mtime = clock
              /\ CountEv(trace', "update", c) = 1
              /\ IF op'[1] = "flush" THEN Count(queue', c) = 0
                 ELSE queue' = queue]_vars

\* update() of c1 ran a hook that fired i1; the wave notified c1's durable
\* subscription while the hook was running; c1 is clean and not queued
C21_Witness ==
  /\ op = <<"update", "c1", "fire">>
  /\ err = NoError
  /\ InvalidatedInHook(trace, "c1")
  /\ \E s \in Allocated :
       /\ subs[s].subscriber = "c1"
       /\ TRANSIENT \notin subs[s].flags
       /\ Notified(trace, s) = 1
  /\ DIRTY \notin comp["c1"].flags
  /\ comp["c1"].mtime = clock
  /\ Count(queue, "c1") = 0

\* the handler that constructed the subscription of event p ran before the
\* transient set was taken (durable phase) or after it (transient phase)
AddedInTransientPhase(tr, p) == \E q \in 1..(p - 1) : tr[q][1] = "clear"

\* C22 (subscriptions added during a wave): a wave of I completes; a
\* transient subscription that a handler adds to I in the durable phase is
\* notified exactly once by that wave, after the transient set was taken, and
\* is not in I's transient set afterwards; one that a handler adds in the
\* transient phase is not notified by that wave and is in I's transient set
\* afterwards.  A subscription in the transient set stays there through every
\* operation that is neither a wave of I nor its own cancel(), and the next
\* wave notifies it once and takes it out.
C22_AddedDuringWave ==
  [][\A i \in Invs :
       /\ (IsOp(op', "Invalidator.invalidate", i) /\ WaveStarts(i)) =>
            /\ err' = NoError
            /\ \A p \in 1..Len(trace') :
                 trace'[p][1] = "add" =>
                   LET s == trace'[p][2] IN
                   /\ subs[s] = NoSub
                   /\ subs'[s].invalidator = i
                   /\ TRANSIENT \in subs'[s].flags
                   /\ IF AddedInTransientPhase(trace', p)
                      THEN /\ Notified(trace', s) = 0
                           /\ Count(inv'[i].transientSubscriptions.items, s) = 1
                      ELSE /\ Notified(trace', s) = 1
                           /\ \E q \in (p + 1)..Len(trace') :
                                /\ AddedInTransientPhase(trace', q)
                                /\ trace'[q][1] = "notify"
                                /\ trace'[q][2] = s
                           /\ Count(inv'[i].transientSubscriptions.items, s) = 0
            /\ \A s \in Members(inv[i].transientSubscriptions) :
                 /\ Notified(trace', s) = 1
                 /\ s \notin Members(inv'[i].transientSubscriptions)
       /\ ~(IsOp(op', "Invalidator.invalidate", i) /\ WaveStarts(i)) =>
            \A s \in Members(inv[i].transientSubscriptions) :
              ~IsOp(op', "cancel", s) =>
                s \in Members(inv'[i].transientSubscriptions)]_vars

\* in one wave a durable handler added a transient subscription that was then
\* notified and consumed, and the handler of that one, running in the
\* transient phase, added a transient subscription that was not notified and
\* is in the set
C22_Witness ==
  /\ IsOp(op, "Invalidator.invalidate", "i1")
  /\ err = NoError
  /\ \E p, q \in 1..Len(trace) :
       /\ trace[p][1] = "add"
       /\ ~AddedInTransientPhase(trace, p)
       /\ Notified(trace, trace[p][2]) = 1
       /\ trace[p][2] \notin Members(inv["i1"].transientSubscriptions)
       /\ trace[q][1] = "add"
       /\ AddedInTransientPhase(trace, q)
       /\ Notified(trace, trace[q][2]) = 0
       /\ trace[q][2] \in Members(inv["i1"].transientSubscriptions)

\* the subscription added in the transient phase of the wave at clock 1 was
\* notified by the wave at clock 2
C22_WitnessNextWave ==
  /\ IsOp(op, "Invalidator.invalidate", "i1")
  /\ clock = 2
  /\ err = NoError
  /\ subs[1].subscriber = "fnAddTransient"
  /\ TRANSIENT \in subs[1].flags
  /\ nsubs = 2
  /\ Notified(trace, 2) = 1
  /\ Notified(trace, 1) = 0
  /\ inv["i1"].transientSubscriptions = Null
====
